---- MODULE Spec2Model ----
(***************************************************************************)
(* A model of td (src/main.rs): the task store, the selector parser, the   *)
(* commands of main and the load/save of the task file.                    *)
(*                                                                         *)
(* Strings are sequences of one-character strings, so that parsing,        *)
(* splitting and pattern matching are computed and not assumed.            *)
(* Timestamps are ticks of the clock `now`.  Option<T> is a sequence of    *)
(* length at most one: None is <<>> and Some(t) is <<t>>.                   *)
(* The field `id` of a task is a history field: the serial number of the   *)
(* create call that made the task.  No operation reads it; it only lets    *)
(* the properties follow one task through the reorderings.                 *)
(***************************************************************************)
EXTENDS Integers, Sequences, FiniteSets, TLC

(* ------------------------------ bounds -------------------------------- *)
\* The store never holds more than MaxTasks tasks (create is cut off there).
MaxTasks == 2
\* The clock stops advancing at MaxTime.
MaxTime == 1

(* --------------------------- string helpers --------------------------- *)
DigitChars == <<"0", "1", "2", "3", "4", "5", "6", "7", "8", "9">>

IsDigit(c) == \E d \in 1..10 : DigitChars[d] = c

DigitVal(c) == (CHOOSE d \in 1..10 : DigitChars[d] = c) - 1

\* The decimal value of a sequence of digit characters.
RECURSIVE DecVal(_)
DecVal(s) ==
    IF s = <<>> THEN 0
    ELSE 10 * DecVal(SubSeq(s, 1, Len(s) - 1)) + DigitVal(s[Len(s)])

RECURSIVE StripZeros(_)
StripZeros(s) ==
    IF s # <<>> /\ s[1] = "0" THEN StripZeros(Tail(s)) ELSE s

\* Lexicographic s <= t for digit sequences of equal length.
RECURSIVE DigitsLeq(_, _)
DigitsLeq(s, t) ==
    IF s = <<>> THEN TRUE
    ELSE IF DigitVal(s[1]) # DigitVal(t[1]) THEN DigitVal(s[1]) < DigitVal(t[1])
    ELSE DigitsLeq(Tail(s), Tail(t))

\* u32::MAX = 4294967295, kept as digits: it is compared digit by digit.
U32MaxDigits == <<"4", "2", "9", "4", "9", "6", "7", "2", "9", "5">>

FitsU32(digits) ==
    LET d == StripZeros(digits) IN
    \/ Len(d) < Len(U32MaxDigits)
    \/ Len(d) = Len(U32MaxDigits) /\ DigitsLeq(d, U32MaxDigits)

\* str::parse::<u32>: an optional "+", then one or more digits, the value at
\* most u32::MAX.  Ok(n) is <<n>>, Err is <<>>.
ParseU32(s) ==
    LET digits == IF s # <<>> /\ s[1] = "+" THEN Tail(s) ELSE s IN
    IF /\ digits # <<>>
       /\ \A i \in 1..Len(digits) : IsDigit(digits[i])
       /\ FitsU32(digits)
    THEN <<DecVal(StripZeros(digits))>>
    ELSE <<>>

\* The least index of character c in s, 0 when there is none.
FindChar(s, c) ==
    IF \E i \in 1..Len(s) : s[i] = c
    THEN CHOOSE i \in 1..Len(s) : s[i] = c /\ \A j \in 1..(i - 1) : s[j] # c
    ELSE 0

\* str::split_once: Some((before, after)) of the first c, or None.
SplitOnce(s, c) ==
    LET i == FindChar(s, c) IN
    IF i = 0 THEN <<>>
    ELSE << <<SubSeq(s, 1, i - 1), SubSeq(s, i + 1, Len(s))>> >>

\* str::split: the segments between the occurrences of c (never empty).
RECURSIVE Split(_, _)
Split(s, c) ==
    LET i == FindChar(s, c) IN
    IF i = 0 THEN <<s>>
    ELSE <<SubSeq(s, 1, i - 1)>> \o Split(SubSeq(s, i + 1, Len(s)), c)

\* [String]::join
RECURSIVE Join(_, _)
Join(ss, sep) ==
    IF ss = <<>> THEN <<>>
    ELSE IF Len(ss) = 1 THEN ss[1]
    ELSE ss[1] \o sep \o Join(Tail(ss), sep)

(* ------------------------------- regex -------------------------------- *)
\* A variant of RegexNew that takes every string for a pattern.
RegexNewOfAnything(s) == <<s>>

\* Regex::new on the characters the model feeds it: letters, digits, "-",
\* "+" and " " are literals, and a ")" that no "(" opens is a syntax error.
RegexNew(s) ==
    IF \E i \in 1..Len(s) : s[i] = ")" THEN <<>> ELSE <<s>>

\* Regex::is_match of a pattern of literals: unanchored, so a substring test.
IsMatch(pattern, text) ==
    \E i \in 1..(Len(text) - Len(pattern) + 1) :
        SubSeq(text, i, i + Len(pattern) - 1) = pattern

(* ------------------------------ the task ------------------------------ *)
None == <<>>

Some(x) == <<x>>

\* struct Task; Task::from_string reads the clock for `created`.
Task(text, created, ident) ==
    [text |-> text, created |-> created, completed |-> None, id |-> ident]

\* impl Display for Task
Display(task) ==
    IF task.completed = None THEN task.text ELSE <<"X", " ">> \o task.text

(* ---------------------------- the selectors --------------------------- *)
\* usize::MAX, the value of `0usize - 1` when overflow checks are off.  It is
\* 2^64 - 1 on a 64-bit target; the model takes the largest integer of the
\* model checker, which is likewise above every position a Vec can have.
UsizeMax == 2147483647

AllSelector == [kind |-> "All"]

IndexSelector(index) == [kind |-> "Index", index |-> index]

RangeSelector(from, to) == [kind |-> "Range", from |-> from, to |-> to]

PatternSelector(pattern) == [kind |-> "Pattern", pattern |-> pattern]

\* What a call ends with when it panics instead of returning.
Panic == [kind |-> "Panic"]

\* TaskSelector::matches, for the four implementations; index is 0-based.
Matches(selector, tasks, index) ==
    CASE selector.kind = "Pattern" ->
            /\ index < Len(tasks)
            /\ IsMatch(selector.pattern, tasks[index + 1].text)
      [] selector.kind = "Index" -> index = selector.index
      [] selector.kind = "Range" ->
            index >= selector.from /\ index <= selector.to
      [] selector.kind = "All" -> TRUE

\* The two ways the crate is built: with overflow checks (the debug profile),
\* where `0 - 1` on a usize panics, and without (the release profile), where
\* it wraps to usize::MAX.
Builds == {"debug", "release"}

\* A variant of SubOne that forgets the step from display number to position.
SubOneForgotten(build, n) == Some(n)

\* `n as usize - 1`: <<>> stands for the overflow panic.
SubOne(build, n) ==
    IF n > 0 THEN Some(n - 1)
    ELSE IF build = "debug" THEN None
    ELSE Some(UsizeMax)

\* A variant of EmptySelector that takes the display number 1 for a position.
EmptySelectorOneBased(empty) ==
    IF empty = "SelectLast" THEN IndexSelector(1) ELSE AllSelector

\* selector_from_string, the branch of the empty string.
EmptySelector(empty) ==
    IF empty = "SelectLast" THEN IndexSelector(0) ELSE AllSelector

\* selector_from_string, as built by `build`.
SelectorFromStringIn(build, string, empty) ==
    IF string = <<>> THEN EmptySelector(empty)
    ELSE IF ParseU32(string) # None THEN
        LET index == SubOne(build, ParseU32(string)[1]) IN
        IF index = None THEN Panic ELSE IndexSelector(index[1])
    ELSE
        LET halves == SplitOnce(string, "-")
            a == IF halves = None THEN None ELSE ParseU32(halves[1][1])
            b == IF halves = None THEN None ELSE ParseU32(halves[1][2])
        IN
        IF a # None /\ b # None THEN
            LET from == SubOne(build, a[1])
                to == SubOne(build, b[1])
            IN
            IF from = None \/ to = None THEN Panic
            ELSE RangeSelector(from[1], to[1])
        ELSE IF RegexNew(string) = None THEN Panic
        ELSE PatternSelector(RegexNew(string)[1])

\* The outcomes of selector_from_string over the builds.
SelectorFromString(string, empty) ==
    {SelectorFromStringIn(build, string, empty) : build \in Builds}

(* ------------------------------ the store ----------------------------- *)
\* Vec::remove and Vec::insert, at 0-based positions.
Remove(tasks, p) == SubSeq(tasks, 1, p) \o SubSeq(tasks, p + 2, Len(tasks))

Insert(tasks, p, task) ==
    SubSeq(tasks, 1, p) \o <<task>> \o SubSeq(tasks, p + 1, Len(tasks))

\* A variant of SelectFrom that does not look at the done handling.
RECURSIVE SelectFromShowingDone(_, _, _, _)
SelectFromShowingDone(tasks, selector, done, task_num) ==
    IF task_num >= Len(tasks) THEN <<>>
    ELSE (IF Matches(selector, tasks, task_num) THEN <<task_num>> ELSE <<>>)
         \o SelectFromShowingDone(tasks, selector, done, task_num + 1)

\* Tasks::select: the 0-based positions, in the order of the iteration.
RECURSIVE SelectFrom(_, _, _, _)
SelectFrom(tasks, selector, done, task_num) ==
    IF task_num >= Len(tasks) THEN <<>>
    ELSE
        LET shown == IF done = "Show" THEN TRUE
                     ELSE tasks[task_num + 1].completed = None
            here == IF shown /\ Matches(selector, tasks, task_num)
                    THEN <<task_num>> ELSE <<>>
        IN here \o SelectFrom(tasks, selector, done, task_num + 1)

\* A variant of Select that starts the iteration at the second task.
SelectFromTheSecond(tasks, selector, done) == SelectFrom(tasks, selector, done, 1)

Select(tasks, selector, done) == SelectFrom(tasks, selector, done, 0)

\* A variant of Create that pushes the task at the end.
CreateAtTheEnd(tasks, task) == Append(tasks, task)

\* A variant of Create that leaves the first task of the store first.
CreateBehindTheFirst(tasks, task) ==
    Insert(tasks, IF tasks = <<>> THEN 0 ELSE 1, task)

\* Tasks::create
Create(tasks, task) == Insert(tasks, 0, task)

\* A variant of WorkOn that re-inserts the task one place too far.
WorkOnOffByOne(tasks, task) ==
    IF task < Len(tasks)
    THEN [ok |-> TRUE,
          tasks |-> Insert(Remove(tasks, task),
                           IF Len(tasks) > 1 THEN 1 ELSE 0, tasks[task + 1])]
    ELSE [ok |-> FALSE, tasks |-> tasks]

\* A variant of WorkOn that does not put the task back.
WorkOnWithoutInsert(tasks, task) ==
    IF task < Len(tasks)
    THEN [ok |-> TRUE, tasks |-> Remove(tasks, task)]
    ELSE [ok |-> FALSE, tasks |-> tasks]

\* Tasks::work_on: the result and the store after the call.
WorkOn(tasks, task) ==
    IF task < Len(tasks)
    THEN [ok |-> TRUE, tasks |-> Insert(Remove(tasks, task), 0, tasks[task + 1])]
    ELSE [ok |-> FALSE, tasks |-> tasks]

\* A variant of Complete that drops the last task when it finds none.
CompleteDroppingOnMiss(tasks, num, time) ==
    IF num < Len(tasks)
    THEN [ok |-> TRUE,
          tasks |-> Append(Remove(tasks, num),
                           [tasks[num + 1] EXCEPT !.completed = Some(time)])]
    ELSE [ok |-> FALSE, tasks |-> SubSeq(tasks, 1, Len(tasks) - 1)]

\* A variant of Complete that does not put the task back.
CompleteWithoutPush(tasks, num, time) ==
    IF num < Len(tasks)
    THEN [ok |-> TRUE, tasks |-> Remove(tasks, num)]
    ELSE [ok |-> FALSE, tasks |-> tasks]

\* A variant of Complete that leaves the task where it is.
CompleteInPlace(tasks, num, time) ==
    IF num < Len(tasks)
    THEN [ok |-> TRUE,
          tasks |-> [tasks EXCEPT ![num + 1].completed = Some(time)]]
    ELSE [ok |-> FALSE, tasks |-> tasks]

\* Tasks::complete, the clock reading `time`.
Complete(tasks, num, time) ==
    IF num < Len(tasks)
    THEN [ok |-> TRUE,
          tasks |-> Append(Remove(tasks, num),
                           [tasks[num + 1] EXCEPT !.completed = Some(time)])]
    ELSE [ok |-> FALSE, tasks |-> tasks]

\* One line of the console: what is said, and of which number and text.
Line(kind, num, text) == [kind |-> kind, num |-> num, text |-> text]

\* Tasks::print_task and Tasks::status: the lines written to the console.
PrintTask(tasks, task) == Line("print_task", task + 1, Display(tasks[task + 1]))

RECURSIVE StatusFrom(_, _)
StatusFrom(tasks, num) ==
    IF num >= Len(tasks) THEN <<>>
    ELSE (IF tasks[num + 1].completed = None
          THEN <<PrintTask(tasks, num)>> ELSE <<>>)
         \o StatusFrom(tasks, num + 1)

Status(tasks) == <<Line("Tasks:", 0, <<>>)>> \o StatusFrom(tasks, 0)

(* ---------------------------- the task file --------------------------- *)
RECURSIVE ToDigits(_)
ToDigits(n) ==
    IF n < 10 THEN <<DigitChars[n + 1]>>
    ELSE ToDigits(n \div 10) \o <<DigitChars[(n % 10) + 1]>>

\* DateTime::format(TIME_FORMAT): the instant, then the numeric offset.
OffsetText == <<"+", "0", "0", ":", "0", "0">>

\* A variant of FormatTime that writes the instant without the offset.
FormatTimeWithoutOffset(time) == <<"T">> \o ToDigits(time)

FormatTime(time) == <<"T">> \o ToDigits(time) \o OffsetText

\* DateTime::parse_from_str(_, TIME_FORMAT): Ok(time) is <<time>>, Err is <<>>.
ParseTime(s) ==
    LET n == Len(s) - Len(OffsetText) - 1
        digits == SubSeq(s, 2, n + 1)
    IN
    IF /\ n >= 1
       /\ s[1] = "T"
       /\ SubSeq(s, n + 2, Len(s)) = OffsetText
       /\ \A i \in 1..n : IsDigit(digits[i])
    THEN Some(DecVal(digits))
    ELSE None

\* A record of the file: its fields, and the history field of the task.
Row(fields, ident) == [fields |-> fields, id |-> ident]

HeaderRow ==
    Row(<< <<"t", "e", "x", "t">>,
           <<"c", "r", "e", "a", "t", "e", "d">>,
           <<"c", "o", "m", "p", "l", "e", "t", "e", "d">> >>, 0)

TaskRow(task) ==
    Row(<<task.text,
          FormatTime(task.created),
          IF task.completed = None THEN <<>> ELSE FormatTime(task.completed[1])>>,
        task.id)

\* Tasks::save: the records written, the header first.
RECURSIVE TaskRows(_)
TaskRows(tasks) ==
    IF tasks = <<>> THEN <<>> ELSE <<TaskRow(tasks[1])>> \o TaskRows(Tail(tasks))

Save(tasks) == [exists |-> TRUE, rows |-> <<HeaderRow>> \o TaskRows(tasks)]

\* The loop of Tasks::load over the records after the header, which has
\* `width` fields: a record of another width is an Err of the reader and is
\* skipped; the `?` and the `return` leave the loop with the store as it is.
RECURSIVE LoadRows(_, _, _)
LoadRows(rows, width, tasks) ==
    IF rows = <<>> THEN [err |-> None, tasks |-> tasks]
    ELSE
        LET record == rows[1].fields IN
        IF Len(record) # width THEN LoadRows(Tail(rows), width, tasks)
        ELSE IF Len(record) < 3 THEN
            [err |-> Some("Task file missing column"), tasks |-> tasks]
        ELSE IF ParseTime(record[2]) = None THEN
            [err |-> Some("Failed to parse task"), tasks |-> tasks]
        ELSE
            LoadRows(Tail(rows), width,
                     Append(tasks,
                            [text |-> record[1],
                             created |-> ParseTime(record[2])[1],
                             completed |-> ParseTime(record[3]),
                             id |-> rows[1].id]))

\* Tasks::load into an empty store: the error, if any, and the store.
Load(f) ==
    IF ~f.exists THEN [err |-> Some("Task file not found"), tasks |-> <<>>]
    ELSE IF f.rows = <<>> THEN [err |-> None, tasks |-> <<>>]
    ELSE LoadRows(Tail(f.rows), Len(f.rows[1].fields), <<>>)

(* ------------------------- the command lines -------------------------- *)
DoneWord == <<"d", "o", "n", "e">>

DoWord == <<"d", "o">>

ShowWord == <<"s", "h", "o", "w">>

\* The first arguments that main does not take for the text of a task.
CommandWords == {DoneWord, DoWord, ShowWord}

\* A number above u32::MAX: 4294967296.
BigNumber == <<"4", "2", "9", "4", "9", "6", "7", "2", "9", "6">>

\* The numbers the expressions are made of: 0, every display number of a
\* full store, and one beyond.
ExprNumbers == 0..(MaxTasks + 1)

\* The ends of the ranges: 0, the first two display numbers and the last one.
RangeNumbers == {0, 1, 2, MaxTasks}

\* The expressions given to done, do and show, as the tokens after the
\* command word: nothing, a number, a range, a pattern (one that matches
\* both texts of the scenario, one that matches one of them, one of two
\* tokens, one that is no regex) and a number that does not fit a u32.
Exprs ==
    {<<>>}
    \cup {<<ToDigits(n)>> : n \in ExprNumbers}
    \cup {<<ToDigits(a) \o <<"-">> \o ToDigits(b)>> : a, b \in RangeNumbers}
    \cup {<< <<"i">> >>, << <<"t">> >>, << <<"B", "u", "y">>, <<"m", "i">> >>,
          << <<")">> >>, <<BigNumber>>}

\* The argument lists of the create command: "Buy milk,Write report" as the
\* shell splits it, and one text that reads as a number.
CreateArgs ==
    {<< <<"B", "u", "y">>,
        <<"m", "i", "l", "k", ",", "W", "r", "i", "t", "e">>,
        <<"r", "e", "p", "o", "r", "t">> >>,
     <<BigNumber>>}

(* ------------------------------ the state ----------------------------- *)
\* The invocations of td that may be running.
Procs == {1, 2}

VARIABLES
    file,    \* tasks.csv: whether it exists, and its records
    now,     \* the clock that Local::now() reads
    nextId,  \* history: the serial number of the next task created
    pc,      \* where each invocation is in main
    tasks,   \* the store of each invocation (Tasks.tasks)
    todo,    \* what the loop of the invocation has still to go through
    out,     \* the lines the invocation has written to the console
    selector, \* the selector that selector_from_string returned, if any
    selected, \* the positions that select returned
    args,    \* history: the arguments of the invocation
    pre      \* history: the store as loaded, before the command

vars == <<file, now, nextId, pc, tasks, todo, out, selector, selected, args, pre>>

Init ==
    /\ file = [exists |-> FALSE, rows |-> <<>>]
    /\ now = 0
    /\ nextId = 1
    /\ pc = [p \in Procs |-> "idle"]
    /\ tasks = [p \in Procs |-> <<>>]
    /\ todo = [p \in Procs |-> <<>>]
    /\ out = [p \in Procs |-> <<>>]
    /\ selector = [p \in Procs |-> None]
    /\ selected = [p \in Procs |-> <<>>]
    /\ args = [p \in Procs |-> <<>>]
    /\ pre = [p \in Procs |-> <<>>]

\* main, lines 239-242: the store is built empty and loaded.
MainLoad(p) ==
    /\ pc[p] = "idle"
    /\ LET loaded == Load(file) IN
        /\ tasks' = [tasks EXCEPT ![p] = loaded.tasks]
        /\ pre' = [pre EXCEPT ![p] = loaded.tasks]
        /\ out' = [out EXCEPT ![p] =
                     IF loaded.err = None THEN <<>>
                     ELSE <<Line("Error loading tasks", 0, <<>>)>>]
    /\ pc' = [pc EXCEPT ![p] = "loaded"]
    /\ UNCHANGED <<file, now, nextId, todo, selector, selected, args>>

\* main, line 283: no argument.
MainNone(p) ==
    /\ pc[p] = "loaded"
    /\ args' = [args EXCEPT ![p] = <<>>]
    /\ out' = [out EXCEPT ![p] = @ \o Status(tasks[p])]
    /\ pc' = [pc EXCEPT ![p] = "save"]
    /\ UNCHANGED <<file, now, nextId, tasks, todo, selector, selected, pre>>

\* main, "done": the selector is parsed and the positions are selected.
MainDone(p) ==
    /\ pc[p] = "loaded"
    /\ \E expr \in Exprs :
        /\ args' = [args EXCEPT ![p] = <<DoneWord>> \o expr]
        /\ \E sel \in SelectorFromString(Join(expr, <<" ">>), "SelectLast") :
            IF sel = Panic
            THEN /\ pc' = [pc EXCEPT ![p] = "aborted"]
                 /\ UNCHANGED <<todo, selector, selected>>
            ELSE LET positions == Select(tasks[p], sel, "Hide") IN
                 /\ pc' = [pc EXCEPT ![p] = "done"]
                 /\ selector' = [selector EXCEPT ![p] = Some(sel)]
                 /\ selected' = [selected EXCEPT ![p] = positions]
                 /\ todo' = [todo EXCEPT ![p] = positions]
    /\ UNCHANGED <<file, now, nextId, tasks, out, pre>>

\* main, "done": one turn of for_each, complete(*t).unwrap().
DoneNext(p) ==
    /\ pc[p] = "done"
    /\ todo[p] # <<>>
    /\ \E time \in now..MaxTime :
        LET result == Complete(tasks[p], Head(todo[p]), time) IN
        /\ now' = time
        /\ IF result.ok
           THEN /\ tasks' = [tasks EXCEPT ![p] = result.tasks]
                /\ out' = [out EXCEPT ![p] =
                             Append(@, Line("completed", 0,
                                            Display(tasks[p][Head(todo[p]) + 1])))]
                /\ todo' = [todo EXCEPT ![p] = Tail(@)]
                /\ pc' = pc
           ELSE /\ pc' = [pc EXCEPT ![p] = "aborted"]
                /\ UNCHANGED <<tasks, out, todo>>
    /\ UNCHANGED <<file, nextId, selector, selected, args, pre>>

\* main, "done": after the loop, status().
DoneEnd(p) ==
    /\ pc[p] = "done"
    /\ todo[p] = <<>>
    /\ out' = [out EXCEPT ![p] = @ \o Status(tasks[p])]
    /\ pc' = [pc EXCEPT ![p] = "save"]
    /\ UNCHANGED <<file, now, nextId, tasks, todo, selector, selected, args, pre>>

\* main, "do": the first selected position is worked on.
MainDo(p) ==
    /\ pc[p] = "loaded"
    /\ \E expr \in Exprs :
        /\ args' = [args EXCEPT ![p] = <<DoWord>> \o expr]
        /\ \E sel \in SelectorFromString(Join(expr, <<" ">>), "SelectLast") :
            IF sel = Panic
            THEN /\ pc' = [pc EXCEPT ![p] = "aborted"]
                 /\ UNCHANGED <<tasks, out, selector, selected>>
            ELSE
                LET positions == Select(tasks[p], sel, "Hide") IN
                /\ pc' = [pc EXCEPT ![p] = "save"]
                /\ selector' = [selector EXCEPT ![p] = Some(sel)]
                /\ selected' = [selected EXCEPT ![p] = positions]
                /\ IF positions = <<>>
                   THEN /\ out' = [out EXCEPT ![p] =
                                     Append(@, Line("Task not found", 0, <<>>))]
                        /\ UNCHANGED tasks
                   ELSE LET result == WorkOn(tasks[p], positions[1]) IN
                        /\ tasks' = [tasks EXCEPT ![p] = result.tasks]
                        /\ out' = [out EXCEPT ![p] =
                                     Append(@,
                                       IF result.ok
                                       THEN Line("working on", 0,
                                                 Display(tasks[p][positions[1] + 1]))
                                       ELSE Line("Error doing task", 0, <<>>))]
    /\ UNCHANGED <<file, now, nextId, todo, pre>>

\* The lines of print_task for the positions, in their order.
RECURSIVE PrintTasks(_, _)
PrintTasks(store, positions) ==
    IF positions = <<>> THEN <<>>
    ELSE <<PrintTask(store, positions[1])>> \o PrintTasks(store, Tail(positions))

\* main, "show": every selected position is printed.
MainShow(p) ==
    /\ pc[p] = "loaded"
    /\ \E expr \in Exprs :
        /\ args' = [args EXCEPT ![p] = <<ShowWord>> \o expr]
        /\ \E sel \in SelectorFromString(Join(expr, <<" ">>), "SelectAll") :
            IF sel = Panic
            THEN /\ pc' = [pc EXCEPT ![p] = "aborted"]
                 /\ UNCHANGED <<out, selector, selected>>
            ELSE LET positions == Select(tasks[p], sel, "Show") IN
                 /\ pc' = [pc EXCEPT ![p] = "save"]
                 /\ selector' = [selector EXCEPT ![p] = Some(sel)]
                 /\ selected' = [selected EXCEPT ![p] = positions]
                 /\ out' = [out EXCEPT ![p] = @ \o PrintTasks(tasks[p], positions)]
    /\ UNCHANGED <<file, now, nextId, tasks, todo, pre>>

\* main, any other first argument: the arguments are joined and split at ",".
MainCreate(p) ==
    /\ pc[p] = "loaded"
    /\ \E a \in CreateArgs :
        LET texts == Split(Join(a, <<" ">>), ",") IN
        /\ a[1] \notin CommandWords
        /\ Len(tasks[p]) + Len(texts) <= MaxTasks
        /\ args' = [args EXCEPT ![p] = a]
        /\ todo' = [todo EXCEPT ![p] = texts]
    /\ pc' = [pc EXCEPT ![p] = "create"]
    /\ UNCHANGED <<file, now, nextId, tasks, out, selector, selected, pre>>

\* main, create: one turn of the loop, create(Task::from_string(text)).
CreateNext(p) ==
    /\ pc[p] = "create"
    /\ todo[p] # <<>>
    /\ \E time \in now..MaxTime :
        LET task == Task(Head(todo[p]), time, nextId) IN
        /\ now' = time
        /\ out' = [out EXCEPT ![p] =
                     Append(@, Line("Created new task", 0, Display(task)))]
        /\ tasks' = [tasks EXCEPT ![p] = Create(@, task)]
    /\ nextId' = nextId + 1
    /\ todo' = [todo EXCEPT ![p] = Tail(@)]
    /\ UNCHANGED <<file, pc, selector, selected, args, pre>>

\* main, create: after the loop, status().
CreateEnd(p) ==
    /\ pc[p] = "create"
    /\ todo[p] = <<>>
    /\ out' = [out EXCEPT ![p] = @ \o Status(tasks[p])]
    /\ pc' = [pc EXCEPT ![p] = "save"]
    /\ UNCHANGED <<file, now, nextId, tasks, todo, selector, selected, args, pre>>

\* The tasks of the file that the store does not hold, by their history
\* field.
RECURSIVE Missing(_, _)
Missing(rows, store) ==
    IF rows = <<>> THEN <<>>
    ELSE (IF \E k \in 1..Len(store) : store[k].id = rows[1].id
          THEN <<>> ELSE <<rows[1]>>)
         \o Missing(Tail(rows), store)

\* A variant of MainSave that keeps the records of the file that the store
\* does not hold.
MainSaveMerging(p) ==
    /\ pc[p] = "save"
    /\ file' = [exists |-> TRUE,
                rows |-> Save(tasks[p]).rows
                         \o (IF file.exists
                             THEN Missing(Tail(file.rows), tasks[p]) ELSE <<>>)]
    /\ pc' = [pc EXCEPT ![p] = "idle"]
    /\ tasks' = [tasks EXCEPT ![p] = <<>>]
    /\ todo' = [todo EXCEPT ![p] = <<>>]
    /\ out' = [out EXCEPT ![p] = <<>>]
    /\ selector' = [selector EXCEPT ![p] = None]
    /\ selected' = [selected EXCEPT ![p] = <<>>]
    /\ args' = [args EXCEPT ![p] = <<>>]
    /\ pre' = [pre EXCEPT ![p] = <<>>]
    /\ UNCHANGED <<now, nextId>>

\* main, lines 285-287: the store is saved and the invocation ends.
MainSave(p) ==
    /\ pc[p] = "save"
    /\ file' = Save(tasks[p])
    /\ pc' = [pc EXCEPT ![p] = "idle"]
    /\ tasks' = [tasks EXCEPT ![p] = <<>>]
    /\ todo' = [todo EXCEPT ![p] = <<>>]
    /\ out' = [out EXCEPT ![p] = <<>>]
    /\ selector' = [selector EXCEPT ![p] = None]
    /\ selected' = [selected EXCEPT ![p] = <<>>]
    /\ args' = [args EXCEPT ![p] = <<>>]
    /\ pre' = [pre EXCEPT ![p] = <<>>]
    /\ UNCHANGED <<now, nextId>>

\* A panic ends the invocation where it is: nothing is saved.
Abort(p) ==
    /\ pc[p] = "aborted"
    /\ pc' = [pc EXCEPT ![p] = "idle"]
    /\ tasks' = [tasks EXCEPT ![p] = <<>>]
    /\ todo' = [todo EXCEPT ![p] = <<>>]
    /\ out' = [out EXCEPT ![p] = <<>>]
    /\ selector' = [selector EXCEPT ![p] = None]
    /\ selected' = [selected EXCEPT ![p] = <<>>]
    /\ args' = [args EXCEPT ![p] = <<>>]
    /\ pre' = [pre EXCEPT ![p] = <<>>]
    /\ UNCHANGED <<file, now, nextId>>

\* One invocation at a time: the tool as the spec supports it.
Next ==
    \/ MainLoad(1)
    \/ MainNone(1)
    \/ MainDone(1)
    \/ DoneNext(1)
    \/ DoneEnd(1)
    \/ MainDo(1)
    \/ MainShow(1)
    \/ MainCreate(1)
    \/ CreateNext(1)
    \/ CreateEnd(1)
    \/ MainSave(1)
    \/ Abort(1)

Spec == Init /\ [][Next]_vars

(* ----------------------- what the claims speak of --------------------- *)
\* The command word of the invocation, and the tokens after it.
Word(p) == IF args[p] = <<>> THEN <<>> ELSE args[p][1]

ExprOf(p) == Tail(args[p])

\* The invocation has run the command `word` to its end and is about to save.
Ran(p, word) == pc[p] = "save" /\ args[p] # <<>> /\ args[p][1] = word

Positions(store) == 0..(Len(store) - 1)

ActivePositions(store) == {i \in Positions(store) : store[i + 1].completed = None}

IdsOf(store) == {store[i].id : i \in 1..Len(store)}

\* The task of the store with the serial number `ident`.
TaskOf(store, ident) == store[CHOOSE i \in 1..Len(store) : store[i].id = ident]

\* The text occurs somewhere in the other.
Occurs(part, whole) ==
    \E i \in 1..(Len(whole) + 1) : \E j \in (i - 1)..Len(whole) :
        SubSeq(whole, i, j) = part

IsNumberExpr(expr) == \E n \in ExprNumbers : expr = <<ToDigits(n)>>

IsRangeExpr(expr) ==
    \E a, b \in RangeNumbers : expr = <<ToDigits(a) \o <<"-">> \o ToDigits(b)>>

\* The expression is a pattern, and one that compiles.
IsPatternExpr(expr) ==
    /\ expr # <<>>
    /\ ~IsNumberExpr(expr)
    /\ ~IsRangeExpr(expr)
    /\ ~Occurs(<<")">>, Join(expr, <<" ">>))

\* The positions of the store that the expression denotes, by section 4.1 of
\* the specification: display number n is position n - 1, and 0 is none.
Denoted(expr, empty, store) ==
    IF expr = <<>> THEN
        IF empty = "SelectLast" THEN {0} \cap Positions(store) ELSE Positions(store)
    ELSE IF IsNumberExpr(expr) THEN
        {i \in Positions(store) : expr = <<ToDigits(i + 1)>>}
    ELSE IF IsRangeExpr(expr) THEN
        {i \in Positions(store) : \E a, b \in RangeNumbers :
            /\ expr = <<ToDigits(a) \o <<"-">> \o ToDigits(b)>>
            /\ a <= i + 1 /\ i + 1 <= b}
    ELSE
        {i \in Positions(store) : Occurs(Join(expr, <<" ">>), store[i + 1].text)}

\* A range one end of which is 0: section 4.1 speaks of positive ends only.
HasZeroEnd(expr) ==
    \E a, b \in RangeNumbers :
        /\ expr = <<ToDigits(a) \o <<"-">> \o ToDigits(b)>>
        /\ (a = 0 \/ b = 0)

\* The expression is one that section 4.1 gives a meaning to.
Meaningful(expr) ==
    \/ expr = <<>>
    \/ IsNumberExpr(expr)
    \/ IsRangeExpr(expr) /\ ~HasZeroEnd(expr)
    \/ IsPatternExpr(expr)

(* -------------------------------- C1 ---------------------------------- *)
\* C1: when `done` has run, every task that was active and matched the
\* expression in the store as loaded is completed, and every other task has
\* the completion timestamp it had.
C1_DoneCompletesTheMatched ==
    \A p \in Procs :
        Ran(p, DoneWord) /\ Meaningful(ExprOf(p)) =>
            \A i \in Positions(pre[p]) :
                LET before == pre[p][i + 1]
                    after == TaskOf(tasks[p], before.id)
                IN
                IF i \in Denoted(ExprOf(p), "SelectLast", pre[p])
                   /\ before.completed = None
                THEN after.completed # None
                ELSE after.completed = before.completed

(* -------------------------------- C2 ---------------------------------- *)
\* The store as the invocation has it, or as the file has it between two
\* invocations.
View(p) == IF pc[p] = "idle" THEN Load(file).tasks ELSE tasks[p]

\* C2: a completion timestamp, once set, is neither set again nor cleared by
\* any step.
C2_CompletedIsSetOnce ==
    [][\A p \in Procs : \A i \in 1..Len(View(p)) :
          View(p)[i].completed # None =>
              \E j \in 1..Len(View(p)') :
                  /\ View(p)'[j].id = View(p)[i].id
                  /\ View(p)'[j].completed = View(p)[i].completed]_vars

(* -------------------------------- C3 ---------------------------------- *)
NumActive(store) == Cardinality(ActivePositions(store))

NumCompleted(store) == Len(store) - NumActive(store)

\* C3: a call complete(num) with num < N leaves one active task fewer and one
\* completed task more, the task that was at num last, completed no earlier
\* than created, and the other tasks in their order.
C3_CompleteMovesToTheEnd ==
    [][\A p \in Procs :
          (pc[p] = "done" /\ todo[p] # <<>> /\ todo'[p] = Tail(todo[p])
           /\ Head(todo[p]) < Len(tasks[p])) =>
              LET num == Head(todo[p])
                  N == Len(tasks[p])
              IN
              /\ Len(tasks'[p]) = N
              /\ NumActive(tasks'[p]) = NumActive(tasks[p]) - 1
              /\ NumCompleted(tasks'[p]) = NumCompleted(tasks[p]) + 1
              /\ tasks'[p][N].id = tasks[p][num + 1].id
              /\ tasks'[p][N].completed # None
              /\ tasks'[p][N].completed[1] >= tasks'[p][N].created
              /\ Remove(tasks'[p], N - 1) = Remove(tasks[p], num)]_vars

(* -------------------------------- C4 ---------------------------------- *)
\* The store with the task at 0-based position q moved to the front.
Promoted(store, q) ==
    [k \in 1..Len(store) |->
        IF k = 1 THEN store[q + 1]
        ELSE IF k <= q + 1 THEN store[k - 1]
        ELSE store[k]]

Dispatched(p) ==
    /\ args[p] # <<>>
    /\ args[p][1] \in CommandWords
    /\ pc[p] \in {"done", "save", "aborted"}

\* C5: with the expression "0", done, do and show do not abort and select
\* nothing.
C5_ZeroSelectsNothing ==
    \A p \in Procs :
        Dispatched(p) /\ ExprOf(p) = << <<"0">> >> =>
            pc[p] # "aborted" /\ selected[p] = <<>>

(* -------------------------------- C6 ---------------------------------- *)
\* What select returns when done applies to the positions in `wanted`: they
\* are listed in ascending order, without the positions of completed tasks
\* unless the command is show.
ListsExactly(p, wanted) ==
    LET eligible == IF args[p][1] = ShowWord THEN wanted
                    ELSE wanted \cap ActivePositions(pre[p])
    IN
    /\ {selected[p][k] : k \in 1..Len(selected[p])} = eligible
    /\ \A k \in 1..(Len(selected[p]) - 1) : selected[p][k] < selected[p][k + 1]

RangePositions(store, a, b) ==
    {i \in Positions(store) : a - 1 <= i /\ i <= b - 1}

\* The numbers and ranges of u32 size select as the claim says.
SmallNumbersAndRangesSelect(p) ==
    /\ \A n \in ExprNumbers \ {0} :
          ExprOf(p) = <<ToDigits(n)>> =>
              /\ pc[p] # "aborted"
              /\ ListsExactly(p, {n - 1} \cap Positions(pre[p]))
    /\ \A a, b \in RangeNumbers \ {0} :
          ExprOf(p) = <<ToDigits(a) \o <<"-">> \o ToDigits(b)>> =>
              /\ pc[p] # "aborted"
              /\ ListsExactly(p, RangePositions(pre[p], a, b))
              /\ (a > b => selected[p] = <<>>)

\* C6 as stated: every positive integer n selects position n - 1 if the
\* store has it and nothing otherwise, 4294967296 included; every range of
\* positive integers selects the positions it spans.
C6_Original ==
    \A p \in Procs :
        Dispatched(p) =>
            /\ SmallNumbersAndRangesSelect(p)
            /\ (ExprOf(p) = <<BigNumber>> =>
                    pc[p] # "aborted" /\ selected[p] = <<>>)

\* C6, amended: a positive integer n <= 4294967295 selects position n - 1 if
\* the store has it and nothing otherwise; a range a-b of positive integers
\* <= 4294967295 selects the positions from a - 1 to b - 1 that the store
\* has, none if a > b; neither aborts, whatever the store.
C6_NumbersAndRangesSelect ==
    \A p \in Procs : Dispatched(p) => SmallNumbersAndRangesSelect(p)

\* A range of positive numbers has selected two positions.
C6_Witness ==
    \E p \in Procs :
        /\ Dispatched(p)
        /\ \E a, b \in RangeNumbers \ {0} :
              ExprOf(p) = <<ToDigits(a) \o <<"-">> \o ToDigits(b)>>
        /\ Len(selected[p]) >= 2

(* -------------------------------- C7 ---------------------------------- *)
DoneHandlingOf(p) == IF args[p][1] = ShowWord THEN "Show" ELSE "Hide"

\* C7: select lists positions of the store in strictly ascending order, and
\* lists position i exactly if the selector matches i and the handling is
\* Show or the task at i is not completed; so All with Show lists every
\* position and Hide lists no completed task.
C7_SelectFilters ==
    \A p \in Procs :
        selector[p] # None =>
            LET sel == selector[p][1]
                listed == {selected[p][k] : k \in 1..Len(selected[p])}
            IN
            /\ \A k \in 1..(Len(selected[p]) - 1) :
                  selected[p][k] < selected[p][k + 1]
            /\ listed \subseteq Positions(pre[p])
            /\ \A i \in Positions(pre[p]) :
                  i \in listed <=>
                      /\ DoneHandlingOf(p) = "Show" \/ pre[p][i + 1].completed = None
                      /\ Matches(sel, pre[p], i)
            /\ (sel = AllSelector /\ DoneHandlingOf(p) = "Show" =>
                    selected[p] = [k \in 1..Len(pre[p]) |-> k - 1])
            /\ (DoneHandlingOf(p) = "Hide" =>
                    \A i \in listed : pre[p][i + 1].completed = None)

\* A selector matched a completed task and an active one: Hide left the
\* completed one out.
C7_Witness ==
    \E p \in Procs :
        /\ selector[p] # None
        /\ DoneHandlingOf(p) = "Hide"
        /\ selected[p] # <<>>
        /\ \E i \in Positions(pre[p]) :
              /\ pre[p][i + 1].completed # None
              /\ Matches(selector[p][1], pre[p], i)

(* -------------------------------- C8 ---------------------------------- *)
\* The least position of an active task.
FirstActive(store) ==
    CHOOSE m \in ActivePositions(store) : \A i \in ActivePositions(store) : m <= i

\* The lines of print_task in what the invocation wrote.
RECURSIVE PrintedOf(_)
PrintedOf(lines) ==
    IF lines = <<>> THEN <<>>
    ELSE (IF lines[1].kind = "print_task" THEN <<lines[1]>> ELSE <<>>)
         \o PrintedOf(Tail(lines))

\* C8: on a store with an active task, done without expression completes the
\* first active task and no other, do without expression moves the first
\* active task to the front and changes nothing else; show without
\* expression prints every task of the store.
C8_EmptyExpression ==
    \A p \in Procs :
        /\ (Ran(p, DoneWord) /\ ExprOf(p) = <<>> /\ ActivePositions(pre[p]) # {} =>
               /\ Len(tasks[p]) = Len(pre[p])
               /\ \A i \in Positions(pre[p]) :
                     LET before == pre[p][i + 1]
                         after == TaskOf(tasks[p], before.id)
                     IN
                     /\ after.text = before.text
                     /\ after.created = before.created
                     /\ IF i = FirstActive(pre[p])
                        THEN after.completed # None
                        ELSE after.completed = before.completed)
        /\ (Ran(p, DoWord) /\ ExprOf(p) = <<>> /\ ActivePositions(pre[p]) # {} =>
               tasks[p] = Promoted(pre[p], FirstActive(pre[p])))
        /\ (Ran(p, ShowWord) /\ ExprOf(p) = <<>> =>
               /\ tasks[p] = pre[p]
               /\ PrintedOf(out[p]) =
                     [k \in 1..Len(pre[p]) |->
                         Line("print_task", k, Display(pre[p][k]))])

\* done without expression has completed the first task of a store that
\* holds a completed task as well.
C8_Witness ==
    \E p \in Procs :
        /\ Ran(p, DoneWord)
        /\ ExprOf(p) = <<>>
        /\ NumActive(pre[p]) >= 1
        /\ NumCompleted(pre[p]) >= 1
        /\ NumCompleted(tasks[p]) = NumCompleted(pre[p]) + 1

(* -------------------------------- C9 ---------------------------------- *)
BuyMilk == <<"B", "u", "y", " ", "m", "i", "l", "k">>

WriteReport == <<"W", "r", "i", "t", "e", " ", "r", "e", "p", "o", "r", "t">>

\* The create command "Buy milk,Write report" has run on the empty store.
ScenarioRan(p) ==
    /\ pc[p] = "save"
    /\ pre[p] = <<>>
    /\ args[p] # <<>>
    /\ args[p][1] \notin CommandWords
    /\ Join(args[p], <<" ">>) = BuyMilk \o <<",">> \o WriteReport

\* C9 as stated: the store then holds two active tasks, "Buy milk" at
\* position 0 and "Write report" at position 1.
C9_Original ==
    \A p \in Procs :
        ScenarioRan(p) =>
            /\ Len(tasks[p]) = 2
            /\ \A k \in 1..2 : tasks[p][k].completed = None
            /\ tasks[p][1].text = BuyMilk
            /\ tasks[p][2].text = WriteReport

\* C9, amended: the store then holds two active tasks, "Write report" at
\* position 0 (display 1) and "Buy milk" at position 1 (display 2).
C9_LastSegmentIsFirst ==
    \A p \in Procs :
        ScenarioRan(p) =>
            /\ Len(tasks[p]) = 2
            /\ \A k \in 1..2 : tasks[p][k].completed = None
            /\ tasks[p][1].text = WriteReport
            /\ tasks[p][2].text = BuyMilk

C9_Witness == \E p \in Procs : ScenarioRan(p) /\ Len(tasks[p]) = 2

(* -------------------------------- C10 --------------------------------- *)
\* C10: when the expression of do matches no active task of the store, do
\* writes "Task not found", leaves the store as loaded and goes on to save.
C10_DoNotFound ==
    \A p \in Procs :
        (/\ Dispatched(p)
         /\ args[p][1] = DoWord
         /\ Meaningful(ExprOf(p))
         /\ Denoted(ExprOf(p), "SelectLast", pre[p]) \cap ActivePositions(pre[p]) = {}) =>
            /\ pc[p] = "save"
            /\ \E k \in 1..Len(out[p]) : out[p][k].kind = "Task not found"
            /\ tasks[p] = pre[p]

(* -------------------------------- C11 --------------------------------- *)
\* The active tasks of the store that the expression of the invocation
\* denotes.
ActiveDenoted(p) ==
    Denoted(ExprOf(p), "SelectLast", pre[p]) \cap ActivePositions(pre[p])

\* The least of a set of positions that is not empty.
Least(positions) == CHOOSE m \in positions : \A i \in positions : m <= i

\* C11: when the expression of do matches an active task, do runs to save
\* with the matching active task of the least position moved to the front
\* and nothing else changed; whatever the expression, do changes no
\* completion state and moves no completed task to the front.
C11_DoPromotesTheFirstMatch ==
    \A p \in Procs :
        /\ (/\ Dispatched(p)
            /\ args[p][1] = DoWord
            /\ Meaningful(ExprOf(p))
            /\ ActiveDenoted(p) # {}) =>
               /\ pc[p] = "save"
               /\ pre[p][Least(ActiveDenoted(p)) + 1].completed = None
               /\ tasks[p] = Promoted(pre[p], Least(ActiveDenoted(p)))
        /\ (Ran(p, DoWord) =>
               /\ Len(tasks[p]) = Len(pre[p])
               /\ \A i \in Positions(pre[p]) :
                     TaskOf(tasks[p], pre[p][i + 1].id) = pre[p][i + 1]
               /\ (tasks[p] # pre[p] => tasks[p][1].completed = None))

\* do with a pattern has moved the second task to the front, past a first
\* task that does not match.
C11_Witness ==
    \E p \in Procs :
        /\ Ran(p, DoWord)
        /\ IsPatternExpr(ExprOf(p))
        /\ ActiveDenoted(p) # {}
        /\ Least(ActiveDenoted(p)) = 1
        /\ tasks[p] # pre[p]

(* ------------------------ the store by itself ------------------------- *)
\* The methods of Tasks called one after another on one store, in any order
\* and with any position, as a test of the store would call them. The store
\* is tasks[1]; pre[1] is the store before the last call, args[1] names the
\* call, selected[1] holds its position argument and out[1] what the call
\* printed and, last, what it returned.
CreateCall == <<"c", "r", "e", "a", "t", "e">>

WorkOnCall == <<"w", "o", "r", "k", "_", "o", "n">>

CompleteCall == <<"c", "o", "m", "p", "l", "e", "t", "e">>

SaveCall == <<"s", "a", "v", "e">>

LoadCall == <<"l", "o", "a", "d">>

\* The texts of the tasks created, and the positions passed: every position
\* of a full store, two beyond, and the greatest usize.
TaskTexts == {BuyMilk, WriteReport}

CallPositions == 0..(MaxTasks + 1) \cup {UsizeMax}

\* The value a call returned: Ok(()) or the error, by its name.
Returned(err) == Line(IF err = None THEN "Ok" ELSE "Err", 0, err)

NotFound == <<"N", "o", "t", "F", "o", "u", "n", "d">>

\* Tasks::create on a task made by Task::from_string.
TasksCreate ==
    /\ Len(tasks[1]) < MaxTasks
    /\ \E text \in TaskTexts : \E time \in now..MaxTime :
        LET task == Task(text, time, nextId) IN
        /\ now' = time
        /\ tasks' = [tasks EXCEPT ![1] = Create(@, task)]
        /\ out' = [out EXCEPT ![1] =
                     <<Line("Created new task", 0, Display(task)), Returned(None)>>]
    /\ nextId' = nextId + 1
    /\ pre' = [pre EXCEPT ![1] = tasks[1]]
    /\ args' = [args EXCEPT ![1] = <<CreateCall>>]
    /\ selected' = [selected EXCEPT ![1] = <<>>]
    /\ UNCHANGED <<file, pc, todo, selector>>

\* Tasks::work_on at any position.
TasksWorkOn ==
    /\ \E task \in CallPositions :
        LET result == WorkOn(tasks[1], task) IN
        /\ tasks' = [tasks EXCEPT ![1] = result.tasks]
        /\ out' = [out EXCEPT ![1] =
                     IF result.ok
                     THEN <<Line("working on", 0, Display(tasks[1][task + 1])),
                            Returned(None)>>
                     ELSE <<Returned(NotFound)>>]
        /\ selected' = [selected EXCEPT ![1] = <<task>>]
    /\ pre' = [pre EXCEPT ![1] = tasks[1]]
    /\ args' = [args EXCEPT ![1] = <<WorkOnCall>>]
    /\ UNCHANGED <<file, now, nextId, pc, todo, selector>>

\* Tasks::complete at any position.
TasksComplete ==
    /\ \E num \in CallPositions : \E time \in now..MaxTime :
        LET result == Complete(tasks[1], num, time) IN
        /\ now' = IF result.ok THEN time ELSE now
        /\ tasks' = [tasks EXCEPT ![1] = result.tasks]
        /\ out' = [out EXCEPT ![1] =
                     IF result.ok
                     THEN <<Line("completed", 0, Display(tasks[1][num + 1])),
                            Returned(None)>>
                     ELSE <<Returned(NotFound)>>]
        /\ selected' = [selected EXCEPT ![1] = <<num>>]
    /\ pre' = [pre EXCEPT ![1] = tasks[1]]
    /\ args' = [args EXCEPT ![1] = <<CompleteCall>>]
    /\ UNCHANGED <<file, nextId, pc, todo, selector>>

\* Tasks::save to a path of its own, then Tasks::load of that path into an
\* empty store, which takes the place of the store saved.
TasksSaveLoad ==
    /\ LET written == Save(tasks[1])
           loaded == Load(written)
       IN
        /\ tasks' = [tasks EXCEPT ![1] = loaded.tasks]
        /\ out' = [out EXCEPT ![1] = <<Returned(loaded.err)>>]
    /\ pre' = [pre EXCEPT ![1] = tasks[1]]
    /\ args' = [args EXCEPT ![1] = <<SaveCall, LoadCall>>]
    /\ selected' = [selected EXCEPT ![1] = <<>>]
    /\ UNCHANGED <<file, now, nextId, pc, todo, selector>>

NextTasks ==
    \/ TasksCreate
    \/ TasksWorkOn
    \/ TasksComplete
    \/ TasksSaveLoad

SpecTasks == Init /\ [][NextTasks]_vars

\* The last call on the store by itself.
Called(call) == args[1] # <<>> /\ args[1][1] = call

(* -------------------------------- C12 --------------------------------- *)
\* C12: the store loaded from the file that save wrote is the store saved:
\* the same tasks in the same order, each with its text, its creation
\* timestamp and its completion timestamp or none, and load reports no
\* error.
C12_SaveThenLoad ==
    Called(SaveCall) =>
        /\ out[1] = <<Returned(None)>>
        /\ Len(tasks[1]) = Len(pre[1])
        /\ \A k \in 1..Len(pre[1]) :
              /\ tasks[1][k].text = pre[1][k].text
              /\ tasks[1][k].created = pre[1][k].created
              /\ tasks[1][k].completed = pre[1][k].completed

\* A store with a completed task before an active one, made at different
\* times, has been saved and loaded.
C12_Witness ==
    /\ Called(SaveCall)
    /\ Len(pre[1]) = 2
    /\ pre[1][1].completed # None
    /\ pre[1][2].completed = None
    /\ pre[1][1].created # pre[1][1].completed[1]

(* -------------------------------- C13 --------------------------------- *)
\* C13: work_on and complete at a position that the store does not have
\* return NotFound, print nothing and leave the store as it was, the empty
\* store included.
C13_OutsideIsNotFound ==
    (/\ Called(WorkOnCall) \/ Called(CompleteCall)
     /\ selected[1][1] >= Len(pre[1])) =>
        /\ out[1] = <<Returned(NotFound)>>
        /\ tasks[1] = pre[1]

\* complete was called on a store with an active task, at the position next
\* after its last.
C13_Witness ==
    /\ Called(CompleteCall)
    /\ NumActive(pre[1]) >= 1
    /\ selected[1][1] = Len(pre[1])

(* ----------------------- overlapping invocations ---------------------- *)
\* The tasks that the create loop of the invocation has still to make.
ToCreate(p) == IF pc[p] = "create" THEN Len(todo[p]) ELSE 0

\* The tasks made so far by all invocations, with those about to be made.
Created == (nextId - 1) + ToCreate(1) + ToCreate(2)

\* The create command, for as long as MaxTasks tasks have not been made
\* (overlapping invocations lose tasks, so the stores do not bound them).
ConcCreate(p) == MainCreate(p) /\ Created' <= MaxTasks

\* Two invocations on the same task file, their steps interleaved in any
\* way: nothing in main takes a lock on the file. The invocations are those
\* of the create command and of td without argument.
NextConc ==
    \E p \in Procs :
        \/ MainLoad(p)
        \/ MainNone(p)
        \/ ConcCreate(p)
        \/ CreateNext(p)
        \/ CreateEnd(p)
        \/ MainSave(p)

SpecConc == Init /\ [][NextConc]_vars

(* -------------------------------- C14 --------------------------------- *)
\* Every invocation is over.
AllIdle == \A p \in Procs : pc[p] = "idle"

\* C14: save writes the store of its invocation, made from the file as the
\* invocation loaded it, over whatever the file holds by then; so of two
\* invocations that both load before either saves, the file keeps the
\* result of the one that saves last and loses the other's.
C14_LastSaveWins ==
    [][\A p \in Procs :
          pc[p] = "save" /\ pc'[p] = "idle" =>
              /\ Load(file').tasks = tasks[p]
              /\ \A k \in 1..Len(Load(file).tasks) :
                    Load(file).tasks[k].id \notin IdsOf(tasks[p]) =>
                        Load(file).tasks[k].id \notin IdsOf(Load(file').tasks)]_vars

\* Two create commands have run to their ends, two tasks have been made,
\* and the file holds one of them.
C14_Witness ==
    /\ AllIdle
    /\ nextId - 1 = 2
    /\ Len(Load(file).tasks) = 1

(* -------------------------------- C15 --------------------------------- *)
\* How far the invocation is from its end.
Stage(p) ==
    CASE pc[p] = "idle" -> 0
      [] pc[p] \in {"save", "aborted"} -> 1
      [] pc[p] \in {"done", "create"} -> 2
      [] pc[p] = "loaded" -> 3

\* The fatal error of section 7 of the specification: the expression of
\* done, do or show is no number, no range and no pattern that compiles.
Fatal(word, expr) ==
    /\ word \in CommandWords
    /\ expr # <<>>
    /\ ~IsNumberExpr(expr)
    /\ ~IsRangeExpr(expr)
    /\ ~IsPatternExpr(expr)

\* C15: an invocation begins with its one load, selects and changes the
\* store only after that and before it is about to save, goes on at every
\* step towards its end, aborts only on a fatal error, and ends either by
\* its one save, after which nothing is selected or changed, or by the
\* abort, which writes nothing; a failed load, an empty selection and a
\* task not found lead to the save like every other path.
C15_LoadOnceSaveOnce ==
    [][\A p \in Procs :
          /\ (pc[p] = "idle" /\ pc'[p] # "idle" =>
                 pc'[p] = "loaded" /\ tasks'[p] = Load(file).tasks)
          /\ (pc'[p] = "loaded" => pc[p] \in {"idle", "loaded"})
          /\ (pc[p] # "idle" /\ pc'[p] # "idle"
              /\ (tasks'[p] # tasks[p] \/ selected'[p] # selected[p]
                  \/ selector'[p] # selector[p]) =>
                 pc[p] \in {"loaded", "done", "create"})
          /\ (pc[p] # "idle" /\ <<pc[p], todo[p]>> # <<pc'[p], todo'[p]>> =>
                 \/ Stage(p)' < Stage(p)
                 \/ Stage(p)' = Stage(p) /\ Len(todo'[p]) < Len(todo[p]))
          /\ (pc'[p] = "aborted" /\ pc[p] # "aborted" =>
                 Fatal(args'[p][1], Tail(args'[p])))
          /\ (pc[p] # "idle" /\ pc'[p] = "idle" =>
                 \/ pc[p] = "save" /\ file' = Save(tasks[p])
                 \/ pc[p] = "aborted" /\ file' = file)
          /\ (pc[p] # "idle" /\ pc'[p] # "idle" => file' = file)]_vars

(* -------------------------------- C16 --------------------------------- *)
\* The invocation is in the create command, or has run it to its end.
InCreate(p) ==
    /\ pc[p] \in {"create", "save"}
    /\ args[p] # <<>>
    /\ args[p][1] \notin CommandWords

\* The segments of the create command, and how many of them are tasks by
\* now.
Segments(p) == Split(Join(args[p], <<" ">>), ",")

Made(p) == Len(Segments(p)) - Len(todo[p])

\* C16: create on a store of N tasks yields N + 1 tasks, the new task first
\* and every other task one position further with its fields as they were;
\* so when the create command has made k of its segments into tasks, the
\* store holds them, active, in reverse order at the front and the tasks
\* loaded, unchanged, behind them.
C16_CreateInsertsAtTheFront ==
    \A p \in Procs :
        /\ LET task == Task(BuyMilk, now, nextId)
               N == Len(tasks[p])
           IN
           /\ task.completed = None
           /\ Create(tasks[p], task) =
                 [k \in 1..(N + 1) |-> IF k = 1 THEN task ELSE tasks[p][k - 1]]
        /\ (InCreate(p) =>
               /\ Len(tasks[p]) = Len(pre[p]) + Made(p)
               /\ \A j \in 1..Made(p) :
                     /\ tasks[p][j].text = Segments(p)[Made(p) - j + 1]
                     /\ tasks[p][j].completed = None
                     /\ tasks[p][j].id \notin IdsOf(pre[p])
               /\ \A i \in 1..Len(pre[p]) : tasks[p][Made(p) + i] = pre[p][i])

\* The create command has put a task in front of the task of the store.
C16_Witness ==
    \E p \in Procs :
        /\ InCreate(p)
        /\ pc[p] = "save"
        /\ Len(pre[p]) >= 1
        /\ Len(tasks[p]) = Len(pre[p]) + 1

(* -------------------------------- C17 --------------------------------- *)
\* C17: while done goes through the positions that select returned, the
\* store keeps the size it was loaded with and every position still to come
\* is one the store has, so that complete returns Ok for it; a done that
\* aborts has aborted in selector_from_string, before the first complete.
C17_CompleteNeverFails ==
    \A p \in Procs :
        /\ (pc[p] = "done" =>
               /\ Len(tasks[p]) = Len(pre[p])
               /\ \A k \in 1..Len(todo[p]) :
                     /\ todo[p][k] < Len(tasks[p])
                     /\ Complete(tasks[p], todo[p][k], now).ok)
        /\ (pc[p] = "aborted" /\ args[p][1] = DoneWord =>
               selector[p] = None /\ tasks[p] = pre[p])

\* done has called complete for two positions and is about to save.
C17_Witness ==
    \E p \in Procs :
        /\ Ran(p, DoneWord)
        /\ Len(selected[p]) >= 2
        /\ NumCompleted(tasks[p]) > NumCompleted(pre[p])

(* -------------------------------- C18 --------------------------------- *)
\* No completed task of the store is before an active one.
ActiveFirst(store) ==
    \A i, j \in 1..Len(store) :
        i < j => ~(store[i].completed # None /\ store[j].completed = None)

\* C18: in the store of an invocation, at every step of every command, and
\* in the store that the file holds, all active tasks precede all completed
\* tasks.
C18_ActiveBeforeCompleted ==
    /\ \A p \in Procs : ActiveFirst(tasks[p])
    /\ ActiveFirst(Load(file).tasks)

\* The file holds an active task and a completed one, and holds them after
\* a create that came after the done.
C18_Witness ==
    /\ AllIdle
    /\ Len(Load(file).tasks) = 2
    /\ Load(file).tasks[1].completed = None
    /\ Load(file).tasks[2].completed # None
    /\ Load(file).tasks[1].id > Load(file).tasks[2].id

(* -------------------------------- C19 --------------------------------- *)
\* The step is a turn of the loop of the create command.
CreateStep(p) == pc[p] = "create" /\ todo[p] # <<>> /\ todo'[p] = Tail(todo[p])

\* The store as View gives it after the step.
ViewAfter(p) == IF pc'[p] = "idle" THEN Load(file').tasks ELSE tasks'[p]

\* C19: no step of any command takes a task out of the store or changes
\* its text or its creation timestamp, in the store of the invocation and
\* from one invocation to the next through the file; the store never gets
\* smaller, and only a turn of the create loop adds a task, exactly one.
C19_TasksAreKept ==
    [][\A p \in Procs :
          pc[p] # "idle" \/ pc'[p] # "idle" =>
              LET before == View(p)
                  after == ViewAfter(p)
              IN
              /\ \A i \in 1..Len(before) :
                    \E j \in 1..Len(after) :
                        /\ after[j].id = before[i].id
                        /\ after[j].text = before[i].text
                        /\ after[j].created = before[i].created
              /\ Len(after) >= Len(before)
              /\ Len(after) =
                     IF CreateStep(p) THEN Len(before) + 1 ELSE Len(before)]_vars

\* done has completed a task of a store of two and is about to save.
C19_Witness ==
    \E p \in Procs :
        /\ Ran(p, DoneWord)
        /\ Len(pre[p]) = 2
        /\ IdsOf(tasks[p]) = IdsOf(pre[p])
        /\ tasks[p] # pre[p]

(* -------------------------------- C20 --------------------------------- *)
\* C20: when the expression of done, do or show is not a valid pattern, the
\* invocation aborts where it parses the expression, with the store as
\* loaded and nothing selected; an aborted invocation changes neither its
\* store nor the file and ends without save.
C20_InvalidPatternAborts ==
    [][\A p \in Procs :
          /\ (/\ pc[p] = "loaded"
              /\ pc'[p] # "loaded"
              /\ args'[p] # <<>>
              /\ Fatal(args'[p][1], Tail(args'[p]))) =>
                 /\ pc'[p] = "aborted"
                 /\ tasks'[p] = pre[p]
                 /\ selector'[p] = None
                 /\ file' = file
          /\ (pc[p] = "aborted" =>
                 /\ file' = file
                 /\ pc'[p] \in {"aborted", "idle"}
                 /\ (pc'[p] = "aborted" => tasks'[p] = tasks[p]))]_vars

\* done with the expression ")" has aborted on a store that holds an active
\* task matching every pattern.
C20_Witness ==
    \E p \in Procs :
        /\ pc[p] = "aborted"
        /\ args[p][1] = DoneWord
        /\ Fatal(args[p][1], ExprOf(p))
        /\ NumActive(tasks[p]) >= 1
        /\ file.exists

====
